---- MODULE Spec2Model ----
(***************************************************************************)
(* Model of updatesparser: the updateinfo.xml parse / filter / render      *)
(* pipeline of pkg/parser/parser.go, the decoding rules of                 *)
(* pkg/types/updateinfo.go and the command line wiring of rootCmd.RunE.    *)
(*                                                                         *)
(* Strings whose content is inspected by the code (dates, package names,   *)
(* hrefs, lines of a packages file) are sequences of one-character         *)
(* strings.  Strings that are only compared or used as file names are TLA+ *)
(* strings.  Only the unix-timestamp path of parseTime is modelled         *)
(* (dateFormat = ""), which is the only path the command line uses.        *)
(***************************************************************************)
EXTENDS Integers, Sequences, FiniteSets, TLC

VARIABLES
    pc,          \* position of the run
    updateXML,   \* path of the input file
    entry,       \* "cli" (rootCmd.RunE), "file" (ParseFileToOutput), "reader" (ParseToOutput)
    flags,       \* command line flags of a cli run
    fopts,       \* options handed to NewFilterConfig
    oopts,       \* options handed to NewOutputConfig
    filter,      \* filterConfig
    out,         \* outputConfig
    pos,         \* number of tokens of interest read from the decoder
    cur,         \* the element read by the last loop iteration of Parse
    curHandled,  \* whether the handler was invoked for cur
    handled,     \* document indices for which the handler was invoked, in call order
    handlerErr,  \* error returned by the last handler invocation
    parseRet,    \* value returned by Parse ("running" before it returns)
    first,       \* ParseToOutput's local "first"
    updates,     \* ParseToOutput's local "updates" (JSON strategy), as document indices
    sink,        \* what has been written to out.output
    renderErr,   \* value of ParseToOutput's return statement
    retErr,      \* error returned to the caller of the entry point
    closeCount,  \* number of invocations of out.close
    closeErr,    \* error returned by out.close
    outFile,     \* state of the file of WithOutputFile: "none", "open", "closed"
    inFile,      \* state of the input file: "none", "open", "closed"
    stderr       \* warnings written to os.Stderr

vars == <<pc, updateXML, entry, flags, fopts, oopts, filter, out, pos, cur, curHandled,
          handled, handlerErr, parseRet, first, updates, sink, renderErr,
          retErr, closeCount, closeErr, outFile, inFile, stderr>>

-----------------------------------------------------------------------------
(* Bounds *)

MaxUpdates == 3      \* tokens of interest read in one run
MaxTs == 3           \* largest unix timestamp in an issued attribute

-----------------------------------------------------------------------------
(* strconv *)

Digits == <<"0", "1", "2", "3", "4", "5", "6", "7", "8", "9">>

IsDigit(c) == \E i \in 1..10 : Digits[i] = c

DigitVal(c) == (CHOOSE i \in 1..10 : Digits[i] = c) - 1

RECURSIVE ParseUint(_, _)
ParseUint(s, acc) ==
    IF s = <<>> THEN acc
    ELSE ParseUint(Tail(s), acc * 10 + DigitVal(Head(s)))

\* strconv.ParseInt(s, 10, 64): optional sign, then at least one digit, digits only
ParseInt(s) ==
    LET signed == s # <<>> /\ Head(s) \in {"+", "-"}
        body   == IF signed THEN Tail(s) ELSE s
        neg    == signed /\ Head(s) = "-"
    IN  IF body = <<>> \/ \E i \in 1..Len(body) : ~IsDigit(body[i])
        THEN [ok |-> FALSE, val |-> 0]
        ELSE [ok |-> TRUE,
              val |-> IF neg THEN 0 - ParseUint(body, 0) ELSE ParseUint(body, 0)]

RECURSIVE FormatUint(_)
FormatUint(n) ==
    IF n < 10 THEN <<Digits[n + 1]>>
    ELSE FormatUint(n \div 10) \o <<Digits[(n % 10) + 1]>>

\* strconv.FormatInt(n, 10)
FormatInt(n) == IF n < 0 THEN <<"-">> \o FormatUint(0 - n) ELSE FormatUint(n)

-----------------------------------------------------------------------------
(* time *)

\* Before, made inclusive
BeforeLe(t, u) == t <= u
\* time.Time.Before on instants given as unix seconds
Before(t, u) == t < u

\* After, made inclusive
AfterGe(t, u) == t >= u
\* time.Time.After on instants given as unix seconds
After(t, u) == t > u

\* time.Unix(0, 0), the default afterDate
DefaultAfterDate == 0

\* time.Now().AddDate(100, 0, 0), the default beforeDate, as unix seconds
DefaultBeforeDate == 3

-----------------------------------------------------------------------------
(* pkg/types: decoding of one <update> element *)

NoDate == [present |-> FALSE, ts |-> 0]

\* date.UnmarshalXMLAttr, made to swallow the error of strconv.ParseInt
DateUnmarshalLenient(value) ==
    LET r == ParseInt(value)
    IN  IF ~r.ok THEN [err |-> "nil", date |-> NoDate]
        ELSE [err |-> "nil", date |-> [present |-> TRUE, ts |-> r.val]]
\* date.UnmarshalXMLAttr
DateUnmarshalXMLAttr(value) ==
    LET r == ParseInt(value)
    IN  IF ~r.ok THEN [err |-> "strconv.ParseInt", date |-> NoDate]
        ELSE [err |-> "nil", date |-> [present |-> TRUE, ts |-> r.val]]

\* href.UnmarshalXMLAttr: url.Parse fails on a string whose first character is
\* the colon ("missing protocol scheme")
HrefUnmarshalXMLAttr(value) ==
    IF value # <<>> /\ Head(value) = ":" THEN "url.Parse" ELSE "nil"

ZeroUpdate == [type |-> "", issued |-> NoDate, references |-> <<>>, packages |-> <<>>]

\* xml.Decoder.DecodeElement into types.Update: children are decoded in
\* document order (issued before references); an attribute unmarshaller's
\* error fails the whole element
DecodeElement(raw) ==
    LET d == IF raw.issued.present THEN DateUnmarshalXMLAttr(raw.issued.value)
             ELSE [err |-> "nil", date |-> NoDate]
    IN  IF ~raw.wellformed THEN [err |-> "xml syntax", u |-> ZeroUpdate]
        ELSE IF d.err # "nil" THEN [err |-> d.err, u |-> ZeroUpdate]
        ELSE IF \E i \in 1..Len(raw.hrefs) : HrefUnmarshalXMLAttr(raw.hrefs[i]) # "nil"
        THEN [err |-> "url.Parse", u |-> ZeroUpdate]
        ELSE [err |-> "nil",
              u |-> [type |-> raw.type, issued |-> d.date,
                     references |-> raw.hrefs, packages |-> raw.packages]]

-----------------------------------------------------------------------------
(* pkg/parser: the filter of Parse *)

\* slices.Contains
RECURSIVE Contains(_, _)
Contains(s, x) ==
    IF s = <<>> THEN FALSE
    ELSE IF Head(s) = x THEN TRUE
    ELSE Contains(Tail(s), x)

\* the loop of Parse over u.Packages, mutated to require every package
RECURSIVE PkgMatchAll(_, _)
PkgMatchAll(pkgs, whiteList) ==
    IF pkgs = <<>> THEN TRUE
    ELSE Contains(whiteList, Head(pkgs)) /\ PkgMatchAll(Tail(pkgs), whiteList)

\* the loop of Parse over u.Packages: pkgMatch
RECURSIVE PkgMatch(_, _)
PkgMatch(pkgs, whiteList) ==
    IF pkgs = <<>> THEN FALSE
    ELSE IF Contains(whiteList, Head(pkgs)) THEN TRUE
    ELSE PkgMatch(Tail(pkgs), whiteList)

\* strings.ToLower on the types of the model
ToLower(t) == IF t = "Security" THEN "security" ELSE t
\* TypeSkip, made to compare case-insensitively
TypeSkipFold(u, f) == f.updateType # "" /\ ToLower(u.type) # ToLower(f.updateType)
\* first early "continue" of Parse
TypeSkip(u, f) == f.updateType # "" /\ u.type # f.updateType

\* DateSkip, without the nil test
DateSkipNever(u) == FALSE
\* second early "continue" of Parse
DateSkip(u) == ~u.issued.present

\* TRUE iff Parse reaches handler(&u) for the decoded update u
Passes(u, f) ==
    IF TypeSkip(u, f) THEN FALSE
    ELSE IF DateSkip(u) THEN FALSE
    ELSE IF Before(u.issued.ts, f.beforeDate) /\ After(u.issued.ts, f.afterDate)
         THEN Len(f.pkgWhiteList) = 0 \/ PkgMatch(u.packages, f.pkgWhiteList)
         ELSE FALSE

-----------------------------------------------------------------------------
(* strings *)

IsSpace(c) == c \in {" ", "\t"}

RECURSIVE TrimLeft(_)
TrimLeft(s) ==
    IF s # <<>> /\ IsSpace(Head(s)) THEN TrimLeft(Tail(s)) ELSE s

RECURSIVE TrimRight(_)
TrimRight(s) ==
    IF s # <<>> /\ IsSpace(s[Len(s)]) THEN TrimRight(SubSeq(s, 1, Len(s) - 1)) ELSE s

\* strings.TrimSpace
TrimSpace(s) == TrimRight(TrimLeft(s))

\* strings.Split(s, sep) for a one-character sep: always at least one field
RECURSIVE Split(_, _)
Split(s, sep) ==
    IF \A i \in 1..Len(s) : s[i] # sep THEN <<s>>
    ELSE LET k == CHOOSE i \in 1..Len(s) :
                      s[i] = sep /\ \A j \in 1..(i - 1) : s[j] # sep
         IN  <<SubSeq(s, 1, k - 1)>> \o Split(SubSeq(s, k + 1, Len(s)), sep)

-----------------------------------------------------------------------------
(* the file system the run sees *)

\* os.Stat(updateInfo) succeeds
StatOk(path) == path \in {"updateinfo.xml", "noperm.xml"}

\* os.Open(updateXML) succeeds
OpenOk(path) == path = "updateinfo.xml"

\* os.Open(pkgFile) succeeds
PackagesFileOk(path) == path \in {"one.packages", "two.packages", "blank.packages"}

\* lines of a packages file as bufio.Scanner yields them
PackagesFileLines(path) ==
    CASE path = "one.packages" -> << <<"a", "|", "1">> >>
      [] path = "two.packages" -> << <<" ", "c", "|", "x", " ">>, <<"a">> >>
      [] path = "blank.packages" -> << <<>>, <<" ">> >>
      [] OTHER -> <<>>

\* os.Create(out) succeeds
CreateOk(path) == path = "out.txt"

\* template.ParseFiles(tmpl) succeeds
TemplateFileOk(path) == path \in {"good.tmpl", "nojoin.tmpl"}

\* the named templates a compiled template defines
TemplateSections(t) ==
    CASE t = "default" -> {"header", "body", "join", "footer"}
      [] t = "good.tmpl" -> {"header", "body", "join", "footer"}
      [] t = "nojoin.tmpl" -> {"header", "body", "footer"}
      [] OTHER -> {}

-----------------------------------------------------------------------------
(* pkg/parser: filter configuration *)

RECURSIVE ScanPackages(_)
ScanPackages(lines) ==
    IF lines = <<>> THEN <<>>
    ELSE <<Split(TrimSpace(Head(lines)), "|")[1]>> \o ScanPackages(Tail(lines))

readPackagesFile(pkgFile) ==
    IF pkgFile = "" THEN [err |-> "nil", packages |-> <<>>]
    ELSE IF ~PackagesFileOk(pkgFile) THEN [err |-> "failed opening file", packages |-> <<>>]
    ELSE [err |-> "nil", packages |-> ScanPackages(PackagesFileLines(pkgFile))]

parseTime(date, format) ==
    LET r == ParseInt(date)
    IN  IF ~r.ok THEN [err |-> "failed parsing date", t |-> 0]
        ELSE [err |-> "nil", t |-> r.val]

WithBeforeTime(before) == [opt |-> "WithBeforeTime", str |-> before, name |-> ""]
WithAfterTime(after) == [opt |-> "WithAfterTime", str |-> after, name |-> ""]
WithPackagesFile(packagesFile) == [opt |-> "WithPackagesFile", str |-> <<>>, name |-> packagesFile]
WithUpdateType(uType) == [opt |-> "WithUpdateType", str |-> <<>>, name |-> uType]

\* the nil *filterConfig
NilFilter == [beforeDate |-> 0, afterDate |-> 0, dateFormat |-> "",
              pkgWhiteList |-> <<>>, updateType |-> ""]

\* the closure a FilterOpt constructor returns, applied to f
ApplyFilterOpt(o, f) ==
    CASE o.opt = "WithBeforeTime" ->
            LET r == parseTime(o.str, f.dateFormat)
            IN  IF r.err # "nil" THEN [err |-> r.err, f |-> f]
                ELSE [err |-> "nil", f |-> [f EXCEPT !.beforeDate = r.t]]
      [] o.opt = "WithAfterTime" ->
            LET r == parseTime(o.str, f.dateFormat)
            IN  IF r.err # "nil" THEN [err |-> r.err, f |-> f]
                ELSE [err |-> "nil", f |-> [f EXCEPT !.afterDate = r.t]]
      [] o.opt = "WithPackagesFile" ->
            LET r == readPackagesFile(o.name)
            IN  IF r.err # "nil" THEN [err |-> r.err, f |-> f]
                ELSE [err |-> "nil", f |-> [f EXCEPT !.pkgWhiteList = r.packages]]
      [] o.opt = "WithUpdateType" ->
            [err |-> "nil", f |-> [f EXCEPT !.updateType = o.name]]

RECURSIVE ApplyFilterOpts(_, _)
ApplyFilterOpts(opts, f) ==
    IF opts = <<>> THEN [err |-> "nil", cfg |-> f]
    ELSE LET r == ApplyFilterOpt(Head(opts), f)
         IN  IF r.err # "nil" THEN [err |-> r.err, cfg |-> NilFilter]
             ELSE ApplyFilterOpts(Tail(opts), r.f)

\* NewFilterConfig, starting from the zero filterConfig
NewFilterConfigNoDefaults(opts) == ApplyFilterOpts(opts, NilFilter)
NewFilterConfig(opts) ==
    ApplyFilterOpts(opts, [beforeDate |-> DefaultBeforeDate,
                           afterDate |-> DefaultAfterDate,
                           dateFormat |-> "",
                           pkgWhiteList |-> <<>>,
                           updateType |-> ""])

-----------------------------------------------------------------------------
(* pkg/parser: output configuration *)

WithJsonOutput == [opt |-> "WithJsonOutput", name |-> ""]
WithOutputFile(o) == [opt |-> "WithOutputFile", name |-> o]
WithTemplateFile(tmpl) == [opt |-> "WithTemplateFile", name |-> tmpl]

\* the nil *outputConfig; template "nil" is the nil *template.Template
NilOut == [output |-> "nil", hasClose |-> FALSE, template |-> "nil", jsonOut |-> FALSE]

\* the closure an OutputOpt constructor returns, applied to o; file is the
\* state of the file that WithOutputFile creates
ApplyOutputOpt(opt, o, file) ==
    CASE opt.opt = "WithJsonOutput" ->
            [err |-> "nil", o |-> [o EXCEPT !.jsonOut = TRUE], file |-> file]
      [] opt.opt = "WithOutputFile" ->
            IF ~CreateOk(opt.name) THEN [err |-> "os.Create", o |-> o, file |-> file]
            ELSE [err |-> "nil",
                  o |-> [o EXCEPT !.output = "file", !.hasClose = TRUE],
                  file |-> "open"]
      [] opt.opt = "WithTemplateFile" ->
            IF ~TemplateFileOk(opt.name)
            THEN [err |-> "template.ParseFiles", o |-> [o EXCEPT !.template = "nil"], file |-> file]
            ELSE [err |-> "nil", o |-> [o EXCEPT !.template = opt.name], file |-> file]

RECURSIVE ApplyOutputOpts(_, _, _)
ApplyOutputOpts(opts, o, file) ==
    IF opts = <<>> THEN [err |-> "nil", cfg |-> o, file |-> file]
    ELSE LET r == ApplyOutputOpt(Head(opts), o, file)
         IN  IF r.err # "nil" THEN [err |-> r.err, cfg |-> NilOut, file |-> r.file]
             ELSE ApplyOutputOpts(Tail(opts), r.o, r.file)

\* NewOutputConfig, made to prefer a supplied template over JSON output
NewOutputConfigTemplateWins(opts) ==
    LET r == ApplyOutputOpts(opts, [NilOut EXCEPT !.output = "stdout"], "none")
    IN  IF r.err # "nil" THEN [err |-> r.err, cfg |-> NilOut, file |-> r.file, warn |-> <<>>]
        ELSE IF r.cfg.template # "nil" /\ r.cfg.jsonOut
        THEN [err |-> "nil", cfg |-> [r.cfg EXCEPT !.jsonOut = FALSE], file |-> r.file,
              warn |-> <<>>]
        ELSE IF r.cfg.template = "nil" /\ ~r.cfg.jsonOut
        THEN [err |-> "nil", cfg |-> [r.cfg EXCEPT !.template = "default"],
              file |-> r.file, warn |-> <<>>]
        ELSE [err |-> "nil", cfg |-> r.cfg, file |-> r.file, warn |-> <<>>]

NewOutputConfig(opts) ==
    LET r == ApplyOutputOpts(opts, [NilOut EXCEPT !.output = "stdout"], "none")
    IN  IF r.err # "nil" THEN [err |-> r.err, cfg |-> NilOut, file |-> r.file, warn |-> <<>>]
        ELSE IF r.cfg.template # "nil" /\ r.cfg.jsonOut
        THEN [err |-> "nil", cfg |-> r.cfg, file |-> r.file,
              warn |-> <<"Warning: json output defined, ignoring provided template">>]
        ELSE IF r.cfg.template = "nil" /\ ~r.cfg.jsonOut
        THEN [err |-> "nil", cfg |-> [r.cfg EXCEPT !.template = "default"],
              file |-> r.file, warn |-> <<>>]
        ELSE [err |-> "nil", cfg |-> r.cfg, file |-> r.file, warn |-> <<>>]

-----------------------------------------------------------------------------
(* inputs *)

Types == {"security", "Security", "bugfix"}

PkgA == <<"a">>
PkgB == <<"b">>
PackageLists == {<<>>, <<PkgA>>, <<PkgB>>, <<PkgB, PkgA>>}

GoodHref == <<"h", ":", "/">>
BadHref == <<":", "/">>

IssuedAttrs ==
    {[present |-> FALSE, value |-> <<>>]}
        \cup {[present |-> TRUE, value |-> FormatInt(t)] : t \in (0 - 1)..MaxTs}

\* well-formed <update> elements that decode without error
GoodUpdates ==
    [type : Types, issued : IssuedAttrs, hrefs : {<<GoodHref>>},
     packages : PackageLists, wellformed : {TRUE}]

ZeroRaw == [type |-> "", issued |-> [present |-> FALSE, value |-> <<>>],
            hrefs |-> <<>>, packages |-> <<>>, wellformed |-> TRUE]

\* <update> elements that fail to decode
BadUpdates ==
    {[ZeroRaw EXCEPT !.issued = [present |-> TRUE, value |-> <<"x">>]],
     [ZeroRaw EXCEPT !.issued = [present |-> TRUE, value |-> <<"1">>], !.hrefs = <<BadHref>>],
     [ZeroRaw EXCEPT !.wellformed = FALSE]}

Token(k, r) == [kind |-> k, raw |-> r]

\* what one iteration of Parse's loop can read: an <update> start element,
\* another token, or a token error
OtherTokens == {Token("other", ZeroRaw), Token("badtoken", ZeroRaw)}

\* token universe of the filter specification: every combination of type,
\* issued date and package list
FilterElements == {Token("update", r) : r \in GoodUpdates} \cup {Token("other", ZeroRaw)}

\* token universe of the pipeline specification
PipelineElements ==
    {Token("update", r) : r \in
        {g \in GoodUpdates :
            /\ g.type \in {"security", "bugfix"}
            /\ g.issued.present => g.issued.value = <<"1">>
            /\ g.packages = <<PkgA>>}
        \cup BadUpdates}
    \cup OtherTokens

DateArgs == {<<>>, <<"-", "1">>, <<"1">>, <<"x">>}
CliDateArgs == {<<>>, <<"2">>, <<"x">>}
PackagesArgs == {"", "one.packages", "two.packages", "missing.packages"}
CliPackagesArgs == {"", "one.packages", "blank.packages", "missing.packages"}
TemplateArgs == {"", "good.tmpl", "nojoin.tmpl", "bad.tmpl"}
OutputArgs == {"", "out.txt", "/nodir/out.txt"}
InputArgs == {"updateinfo.xml", "noperm.xml", "missing.xml"}

\* cobra rejects --json together with --template before RunE runs
FlagSets ==
    {fl \in [beforeDate : CliDateArgs, afterDate : CliDateArgs, packages : CliPackagesArgs,
             template : TemplateArgs, output : OutputArgs,
             security : BOOLEAN, json : BOOLEAN] :
        ~(fl.json /\ fl.template # "")}

ZeroFlags == [beforeDate |-> <<>>, afterDate |-> <<>>, packages |-> "",
              template |-> "", output |-> "", security |-> FALSE, json |-> FALSE]

Opt(cond, o) == IF cond THEN <<o>> ELSE <<>>

securityType == "security"

\* fOpts as rootCmd.RunE builds them
CliFilterOpts(fl) ==
    Opt(fl.beforeDate # <<>>, WithBeforeTime(fl.beforeDate))
        \o Opt(fl.afterDate # <<>>, WithBeforeTime(fl.afterDate))
        \o Opt(fl.packages # "", WithPackagesFile(fl.packages))
        \o Opt(fl.security, WithUpdateType(securityType))

\* oOpts as rootCmd.RunE builds them
CliOutputOpts(fl) ==
    Opt(fl.output # "", WithOutputFile(fl.output))
        \o Opt(fl.template # "", WithTemplateFile(fl.template))
        \o Opt(fl.json, WithJsonOutput)

\* option lists of a caller of the package
PipelineFilterOpts == {<<>>, <<WithUpdateType(securityType)>>}

LibFilterOpts ==
    {Opt(a # <<>>, WithAfterTime(a)) \o Opt(b # <<>>, WithBeforeTime(b))
        \o Opt(p # "", WithPackagesFile(p)) \o Opt(t # "", WithUpdateType(t)) :
        a \in DateArgs, b \in DateArgs, p \in PackagesArgs, t \in {"", "security"}}

LibOutputOpts ==
    {Opt(o # "", WithOutputFile(o)) \o Opt(t # "", WithTemplateFile(t))
        \o Opt(j, WithJsonOutput) :
        o \in OutputArgs, t \in TemplateArgs, j \in BOOLEAN}

-----------------------------------------------------------------------------
(* state machine *)

NoElement == [kind |-> "none", raw |-> ZeroRaw, u |-> ZeroUpdate, decodeErr |-> "nil"]

Init ==
    /\ pc = "start"
    /\ entry = "none"
    /\ flags = ZeroFlags
    /\ updateXML = ""
    /\ fopts = <<>>
    /\ oopts = <<>>
    /\ filter = NilFilter
    /\ out = NilOut
    /\ pos = 0
    /\ cur = NoElement
    /\ curHandled = FALSE
    /\ handled = <<>>
    /\ handlerErr = "nil"
    /\ parseRet = "running"
    /\ first = TRUE
    /\ updates = <<>>
    /\ sink = <<>>
    /\ renderErr = "nil"
    /\ retErr = "pending"
    /\ closeCount = 0
    /\ closeErr = "nil"
    /\ outFile = "none"
    /\ inFile = "none"
    /\ stderr = <<>>

runVars == <<pos, cur, curHandled, handled, handlerErr, parseRet, first, updates,
             sink, renderErr, closeCount, closeErr, inFile>>

\* the two constructors, then either the entry point next or the error return
Configure(e, path, fl, fo, oo, next) ==
    LET fr == NewFilterConfig(fo)
        or == NewOutputConfig(oo)
    IN  /\ entry' = e
        /\ updateXML' = path
        /\ flags' = fl
        /\ fopts' = fo
        /\ IF fr.err # "nil"
           THEN /\ retErr' = fr.err
                /\ pc' = "returned"
                /\ UNCHANGED <<oopts, filter, out, outFile, stderr>>
           ELSE /\ filter' = fr.cfg
                /\ oopts' = oo
                /\ outFile' = or.file
                /\ stderr' = stderr \o or.warn
                /\ out' = or.cfg
                /\ IF or.err # "nil"
                   THEN retErr' = or.err /\ pc' = "returned"
                   ELSE retErr' = retErr /\ pc' = next
        /\ UNCHANGED runVars

\* rootCmd.RunE up to the call of ParseFileToOutput
RunE ==
    /\ pc = "start"
    /\ \E path \in InputArgs, fl \in FlagSets :
          IF ~StatOk(path)
          THEN /\ entry' = "cli"
               /\ updateXML' = path
               /\ flags' = fl
               /\ retErr' = "could not find updateinfo file"
               /\ pc' = "returned"
               /\ UNCHANGED <<fopts, oopts, filter, out, outFile, stderr>>
               /\ UNCHANGED runVars
          ELSE Configure("cli", path, fl, CliFilterOpts(fl), CliOutputOpts(fl),
                         "ParseFileToOutput")

\* a caller of the package: NewFilterConfig, NewOutputConfig, then
\* ParseFileToOutput on a path or ParseToOutput on a reader
Library ==
    /\ pc = "start"
    /\ \E fo \in PipelineFilterOpts, oo \in LibOutputOpts :
          \/ \E path \in InputArgs :
                Configure("file", path, ZeroFlags, fo, oo, "ParseFileToOutput")
          \/ Configure("reader", "", ZeroFlags, fo, oo, "ParseToOutput")

\* ParseFileToOutput: os.Open
ParseFileToOutput ==
    /\ pc = "ParseFileToOutput"
    /\ IF ~OpenOk(updateXML)
       THEN /\ retErr' = "nil"
            /\ pc' = "returned"
            /\ UNCHANGED inFile
       ELSE /\ inFile' = "open"
            /\ pc' = "ParseToOutput"
            /\ UNCHANGED retErr
    /\ UNCHANGED <<entry, flags, updateXML, fopts, oopts, filter, out, pos, cur,
                   curHandled, handled, handlerErr, parseRet, first, updates, sink,
                   renderErr, closeCount, closeErr, outFile, stderr>>

Section(name, items) == [sec |-> name, items |-> items]

\* template.ExecuteTemplate(out.output, name, data): fails when the template
\* does not define name or when the write to the sink fails.  The sink records
\* complete sections only: what a failed execution wrote before it failed is
\* not recorded
ExecuteTemplate(t, name, writeOk) ==
    IF name \notin TemplateSections(t) THEN "template: no template"
    ELSE IF ~writeOk THEN "write error"
    ELSE "nil"

\* ParseToOutput up to the call of Parse
ParseToOutput ==
    /\ pc = "ParseToOutput"
    /\ IF ~out.jsonOut
       THEN \E writeOk \in BOOLEAN :
               LET err == ExecuteTemplate(out.template, "header", writeOk)
               IN  IF err # "nil"
                   THEN /\ renderErr' = err
                        /\ pc' = "deferClose"
                        /\ UNCHANGED sink
                   ELSE /\ sink' = Append(sink, Section("header", <<>>))
                        /\ pc' = "Parse"
                        /\ UNCHANGED renderErr
       ELSE /\ pc' = "Parse"
            /\ UNCHANGED <<sink, renderErr>>
    /\ UNCHANGED <<entry, flags, updateXML, fopts, oopts, filter, out, pos, cur,
                   curHandled, handled, handlerErr, parseRet, first, updates,
                   retErr, closeCount, closeErr, outFile, inFile, stderr>>

\* TemplateHandler, without the test of "first"
TemplateHandlerJoinAlways(t, s, f, idx, joinOk, bodyOk) ==
    LET joinErr == ExecuteTemplate(t, "join", joinOk)
        s1      == Append(s, Section("join", <<>>))
        bodyErr == ExecuteTemplate(t, "body", bodyOk)
    IN  IF joinErr # "nil" THEN [err |-> joinErr, sink |-> s, first |-> f]
        ELSE IF bodyErr # "nil" THEN [err |-> bodyErr, sink |-> s1, first |-> f]
        ELSE [err |-> "nil", sink |-> Append(s1, Section("body", <<idx>>)), first |-> FALSE]
\* the handler of the template strategy, invoked for the update at document
\* index idx: returns its error and the new sink and "first"
TemplateHandler(t, s, f, idx, joinOk, bodyOk) ==
    LET joinErr == IF f THEN "nil" ELSE ExecuteTemplate(t, "join", joinOk)
        s1      == IF f THEN s ELSE Append(s, Section("join", <<>>))
        bodyErr == ExecuteTemplate(t, "body", bodyOk)
    IN  IF joinErr # "nil" THEN [err |-> joinErr, sink |-> s, first |-> f]
        ELSE IF bodyErr # "nil" THEN [err |-> bodyErr, sink |-> s1, first |-> f]
        ELSE [err |-> "nil", sink |-> Append(s1, Section("body", <<idx>>)), first |-> FALSE]

\* JsonHandler, made to put the new record in front
JsonHandlerPrepend(ups, idx) == <<idx>> \o ups
\* the handler of the JSON strategy, invoked for the update at document index
\* idx: the new value of "updates"; it returns no error
JsonHandler(ups, idx) == Append(ups, idx)

\* AfterHandler, made to drop the handler's error
AfterHandlerIgnore(err) == "running"
\* Parse after handler(&u) returned err: the value Parse returns, "running"
\* when the loop goes on
AfterHandler(err) == IF err # "nil" THEN err ELSE "running"

\* Parse, one iteration of the token loop: d.Token() fails
TokenError(el) ==
    /\ el.kind = "badtoken"
    /\ cur' = [kind |-> "badtoken", raw |-> ZeroRaw, u |-> ZeroUpdate, decodeErr |-> "nil"]
    /\ curHandled' = FALSE
    /\ parseRet' = "decoding token"
    /\ pc' = "AfterParse"
    /\ UNCHANGED <<handled, handlerErr, first, updates, sink>>

\* Parse, one iteration of the token loop: a token that is not the start of
\* an <update> element
TokenOther(el) ==
    /\ el.kind = "other"
    /\ cur' = [kind |-> "other", raw |-> ZeroRaw, u |-> ZeroUpdate, decodeErr |-> "nil"]
    /\ curHandled' = FALSE
    /\ UNCHANGED <<pc, parseRet, handled, handlerErr, first, updates, sink>>

\* Parse, one iteration of the token loop: d.DecodeElement fails
TokenDecodeError(el) ==
    /\ el.kind = "update"
    /\ DecodeElement(el.raw).err # "nil"
    /\ cur' = [kind |-> "update", raw |-> el.raw, u |-> ZeroUpdate,
               decodeErr |-> DecodeElement(el.raw).err]
    /\ curHandled' = FALSE
    /\ parseRet' = "decoding element"
    /\ pc' = "AfterParse"
    /\ UNCHANGED <<handled, handlerErr, first, updates, sink>>

\* Parse, one iteration of the token loop: the update is filtered out
TokenSkipped(el) ==
    /\ el.kind = "update"
    /\ DecodeElement(el.raw).err = "nil"
    /\ ~Passes(DecodeElement(el.raw).u, filter)
    /\ cur' = [kind |-> "update", raw |-> el.raw, u |-> DecodeElement(el.raw).u,
               decodeErr |-> "nil"]
    /\ curHandled' = FALSE
    /\ UNCHANGED <<pc, parseRet, handled, handlerErr, first, updates, sink>>

\* Parse, one iteration of the token loop: the update reaches handler(&u)
TokenHandled(el) ==
    /\ el.kind = "update"
    /\ DecodeElement(el.raw).err = "nil"
    /\ Passes(DecodeElement(el.raw).u, filter)
    /\ cur' = [kind |-> "update", raw |-> el.raw, u |-> DecodeElement(el.raw).u,
               decodeErr |-> "nil"]
    /\ curHandled' = TRUE
    /\ handled' = Append(handled, pos + 1)
    /\ IF out.jsonOut
       THEN /\ updates' = JsonHandler(updates, pos + 1)
            /\ handlerErr' = "nil"
            /\ UNCHANGED <<pc, parseRet, first, sink>>
       ELSE \E joinOk \in (IF first THEN {TRUE} ELSE BOOLEAN), bodyOk \in BOOLEAN :
               LET h == TemplateHandler(out.template, sink, first, pos + 1, joinOk, bodyOk)
               IN  /\ handlerErr' = h.err
                   /\ sink' = h.sink
                   /\ first' = h.first
                   /\ UNCHANGED updates
                   /\ parseRet' = AfterHandler(h.err)
                   /\ pc' = IF AfterHandler(h.err) # "running" THEN "AfterParse" ELSE pc

\* Parse: one iteration of the token loop over a token drawn from E
ParseToken(E) ==
    /\ pc = "Parse"
    /\ pos < MaxUpdates
    /\ pos' = pos + 1
    /\ \E el \in E :
          \/ TokenError(el)
          \/ TokenOther(el)
          \/ TokenDecodeError(el)
          \/ TokenSkipped(el)
          \/ TokenHandled(el)
    /\ UNCHANGED <<entry, flags, updateXML, fopts, oopts, filter, out, renderErr,
                   retErr, closeCount, closeErr, outFile, inFile, stderr>>

\* Parse: d.Token() returns io.EOF
ParseEOF ==
    /\ pc = "Parse"
    /\ parseRet' = "nil"
    /\ pc' = "AfterParse"
    /\ UNCHANGED <<entry, flags, updateXML, fopts, oopts, filter, out, pos, cur,
                   curHandled, handled, handlerErr, first, updates, sink, renderErr,
                   retErr, closeCount, closeErr, outFile, inFile, stderr>>

\* ParseToOutput from the return of Parse to its own return statement
AfterParse ==
    /\ pc = "AfterParse"
    /\ pc' = "deferClose"
    /\ IF parseRet # "nil"
       THEN renderErr' = parseRet /\ UNCHANGED sink
       ELSE \E writeOk \in BOOLEAN :
               IF ~out.jsonOut
               THEN LET err == ExecuteTemplate(out.template, "footer", writeOk)
                    IN  /\ renderErr' = err
                        /\ sink' = IF err = "nil" THEN Append(sink, Section("footer", <<>>))
                                   ELSE sink
               ELSE /\ renderErr' = IF writeOk THEN "nil" ELSE "write error"
                    /\ sink' = IF writeOk THEN Append(sink, Section("json", updates))
                               ELSE sink
    /\ UNCHANGED <<entry, flags, updateXML, fopts, oopts, filter, out, pos, cur,
                   curHandled, handled, handlerErr, parseRet, first, updates,
                   retErr, closeCount, closeErr, outFile, inFile, stderr>>

\* DeferredRetErr, made to let the close error replace a pending error
DeferredRetErrMask(ret, err) == IF err # "nil" THEN err ELSE ret
\* the deferred function of ParseToOutput: the named result retErr after
\* out.close() returned err
DeferredRetErr(ret, err) == IF ret = "nil" /\ err # "nil" THEN err ELSE ret

\* the deferred function of ParseToOutput, and the return to its caller
DeferClose ==
    /\ pc = "deferClose"
    /\ \E closeOk \in BOOLEAN :
          LET err == IF closeOk THEN "nil" ELSE "close error"
              ret == IF ~out.hasClose THEN renderErr
                     ELSE DeferredRetErr(renderErr, err)
          IN  /\ IF out.hasClose
                 THEN /\ closeCount' = closeCount + 1
                      /\ closeErr' = err
                      /\ outFile' = "closed"
                 ELSE UNCHANGED <<closeCount, closeErr, outFile>>
              /\ retErr' = ret
    /\ pc' = IF entry = "reader" THEN "returned" ELSE "deferInputClose"
    /\ UNCHANGED <<entry, flags, updateXML, fopts, oopts, filter, out, pos, cur,
                   curHandled, handled, handlerErr, parseRet, first, updates, sink,
                   renderErr, inFile, stderr>>

\* the deferred function of ParseFileToOutput, and the return to its caller
DeferInputClose ==
    /\ pc = "deferInputClose"
    /\ \E closeOk \in BOOLEAN :
          LET err == IF closeOk THEN "nil" ELSE "input close error"
          IN  retErr' = IF retErr = "nil" /\ err # "nil" THEN err ELSE retErr
    /\ inFile' = "closed"
    /\ pc' = "returned"
    /\ UNCHANGED <<entry, flags, updateXML, fopts, oopts, filter, out, pos, cur,
                   curHandled, handled, handlerErr, parseRet, first, updates, sink,
                   renderErr, closeCount, closeErr, outFile, stderr>>

\* a caller of the package that filters a reader with any filter configuration
FilterRun ==
    /\ pc = "start"
    /\ \E fo \in LibFilterOpts, oo \in {<<>>, <<WithJsonOutput>>} :
          Configure("reader", "", ZeroFlags, fo, oo, "ParseToOutput")

Next ==
    \/ RunE
    \/ Library
    \/ ParseFileToOutput
    \/ ParseToOutput
    \/ ParseToken(PipelineElements)
    \/ ParseEOF
    \/ AfterParse
    \/ DeferClose
    \/ DeferInputClose

Spec == Init /\ [][Next]_vars

NextFilter ==
    \/ FilterRun
    \/ ParseToOutput
    \/ ParseToken(FilterElements)
    \/ ParseEOF
    \/ AfterParse
    \/ DeferClose

SpecFilter == Init /\ [][NextFilter]_vars

-----------------------------------------------------------------------------
(* properties *)

Range(s) == {s[i] : i \in 1..Len(s)}

\* the last loop iteration of Parse decoded an <update> element
CurIsUpdate == cur.kind = "update" /\ cur.decodeErr = "nil"

IssuedPresent == cur.u.issued.present

TypeOk == filter.updateType = "" \/ cur.u.type = filter.updateType

InWindow ==
    /\ IssuedPresent
    /\ filter.afterDate < cur.u.issued.ts
    /\ cur.u.issued.ts < filter.beforeDate

PkgOk ==
    \/ filter.pkgWhiteList = <<>>
    \/ Range(cur.u.packages) \cap Range(filter.pkgWhiteList) # {}

\* C1: whatever the filter configuration, Parse does not invoke the handler
\* for an update whose issued date is absent
C1_NoIssuedNeverHandled ==
    (CurIsUpdate /\ ~IssuedPresent) => ~curHandled

\* an update without issued date was read under a filter with no type and no
\* package constraint
C1_Witness ==
    /\ CurIsUpdate
    /\ ~IssuedPresent
    /\ filter.updateType = ""
    /\ filter.pkgWhiteList = <<>>
    /\ filter.afterDate < 0

\* C2: with updateType set to T the handler is invoked for an update iff its
\* type equals T exactly, it is inside the date window and it satisfies the
\* package constraint; with updateType unset the type does not matter
C2_TypeFilter ==
    CurIsUpdate =>
        /\ filter.updateType # "" =>
              (curHandled <=> (cur.u.type = filter.updateType /\ InWindow /\ PkgOk))
        /\ filter.updateType = "" => (curHandled <=> (InWindow /\ PkgOk))

\* an update whose type differs from T only in case is left out, although the
\* window and the package constraint are satisfied
C2_Witness ==
    /\ CurIsUpdate
    /\ filter.updateType = "security"
    /\ cur.u.type = "Security"
    /\ InWindow
    /\ PkgOk
    /\ filter.pkgWhiteList # <<>>
    /\ ~curHandled

\* C3: the handler is invoked for an update issued at d only if
\* afterDate < d < beforeDate; d = afterDate and d = beforeDate are excluded,
\* and every d strictly between them passes the date condition
C3_StrictWindow ==
    (CurIsUpdate /\ IssuedPresent) =>
        /\ curHandled =>
              (filter.afterDate < cur.u.issued.ts /\ cur.u.issued.ts < filter.beforeDate)
        /\ cur.u.issued.ts \in {filter.afterDate, filter.beforeDate} => ~curHandled
        /\ (filter.afterDate < cur.u.issued.ts /\ cur.u.issued.ts < filter.beforeDate
                /\ TypeOk /\ PkgOk) => curHandled

\* an update issued exactly at a beforeDate given by option is left out although
\* the type and package constraints are satisfied
C3_Witness ==
    /\ CurIsUpdate
    /\ IssuedPresent
    /\ \E i \in 1..Len(fopts) : fopts[i].opt = "WithBeforeTime"
    /\ \E i \in 1..Len(fopts) : fopts[i].opt = "WithAfterTime"
    /\ cur.u.issued.ts = filter.beforeDate
    /\ filter.afterDate < filter.beforeDate
    /\ TypeOk
    /\ PkgOk
    /\ ~curHandled

\* C4: with a non-empty allow-list an update satisfies the package constraint
\* iff at least one of its packages is listed (an empty package list never
\* does); with an empty allow-list every update satisfies it
C4_PackageAnyMatch ==
    (CurIsUpdate /\ TypeOk /\ InWindow) =>
        /\ filter.pkgWhiteList # <<>> =>
              (curHandled <=>
                  \E i \in 1..Len(cur.u.packages) :
                      \E j \in 1..Len(filter.pkgWhiteList) :
                          cur.u.packages[i] = filter.pkgWhiteList[j])
        /\ (filter.pkgWhiteList # <<>> /\ cur.u.packages = <<>>) => ~curHandled
        /\ filter.pkgWhiteList = <<>> => curHandled

\* an update whose second package only is listed is handed to the handler
C4_Witness ==
    /\ CurIsUpdate
    /\ filter.pkgWhiteList = <<PkgA>>
    /\ cur.u.packages = <<PkgB, PkgA>>
    /\ curHandled

\* NewFilterConfig was given neither WithBeforeTime nor WithAfterTime
NoDateOption ==
    \A i \in 1..Len(fopts) : fopts[i].opt \notin {"WithBeforeTime", "WithAfterTime"}

NoOtherConstraint == filter.updateType = "" /\ filter.pkgWhiteList = <<>>

\* C5 as stated, over the timestamps from epoch 0 up to now + 100 years:
\* without a date option every update that has an issued date, timestamp 0
\* included, passes the date window and so reaches the handler
C5_AllTime ==
    (NoDateOption /\ NoOtherConstraint /\ CurIsUpdate /\ IssuedPresent
        /\ 0 <= cur.u.issued.ts /\ cur.u.issued.ts < DefaultBeforeDate)
        => curHandled

\* C5 amended: without a date option the window is (epoch 0, now + 100 years),
\* exclusive at both ends
C5_DefaultWindow ==
    (NoDateOption /\ NoOtherConstraint /\ CurIsUpdate /\ IssuedPresent)
        => (curHandled <=> (0 < cur.u.issued.ts /\ cur.u.issued.ts < DefaultBeforeDate))

\* an update issued at timestamp 0 was read under the default window
C5_Witness ==
    /\ NoDateOption
    /\ NoOtherConstraint
    /\ CurIsUpdate
    /\ IssuedPresent
    /\ cur.u.issued.ts = 0
    /\ ~curHandled

\* the constructors succeeded and the run entered ParseFileToOutput or ParseToOutput
RunStarted == pc \notin {"start"} /\ out.output # "nil"

\* C6: with --afterDate=A the lower bound of the window becomes A and the
\* upper bound stays at its default or at the value of --beforeDate
C6_AfterDateFlag ==
    (entry = "cli" /\ RunStarted /\ flags.afterDate # <<>>) =>
        /\ filter.afterDate = ParseInt(flags.afterDate).val
        /\ filter.beforeDate = IF flags.beforeDate # <<>>
                               THEN ParseInt(flags.beforeDate).val
                               ELSE DefaultBeforeDate

\* ParseToOutput reached its last return statement with no error from the
\* header, from Parse or from the footer
RenderCompleted ==
    /\ pc \in {"deferClose", "deferInputClose", "returned"}
    /\ parseRet = "nil"
    /\ renderErr = "nil"

\* C7: a template run that completes without error over N surviving records
\* has written header, the N bodies in document order with one join between
\* two consecutive bodies, then footer, and nothing else
C7_TemplateLayout ==
    (RenderCompleted /\ ~out.jsonOut) =>
        LET N == Len(handled)
        IN  /\ Len(sink) = IF N = 0 THEN 2 ELSE 2 * N + 1
            /\ sink[1] = Section("header", <<>>)
            /\ sink[Len(sink)] = Section("footer", <<>>)
            /\ \A k \in 1..N : sink[2 * k] = Section("body", <<handled[k]>>)
            /\ \A k \in 1..(N - 1) : sink[2 * k + 1] = Section("join", <<>>)
            /\ \A k \in 1..(N - 1) : handled[k] < handled[k + 1]
            /\ Cardinality({i \in 1..Len(sink) : sink[i].sec = "join"})
                  = IF N <= 1 THEN 0 ELSE N - 1

\* a completed template run in which two of three tokens survived
C7_Witness ==
    /\ RenderCompleted
    /\ ~out.jsonOut
    /\ pos = 3
    /\ Len(handled) = 2

\* C8: when the handler returns an error Parse returns that same error at
\* once: the failed invocation is the last one and the token it was made for
\* is the last one read
C8_HandlerErrorStops ==
    handlerErr # "nil" =>
        /\ parseRet = handlerErr
        /\ pc # "Parse"
        /\ handled # <<>>
        /\ handled[Len(handled)] = pos
        /\ curHandled

\* the handler failed on the second surviving update, before the token bound
C8_Witness ==
    /\ handlerErr # "nil"
    /\ Len(handled) = 2
    /\ pos < MaxUpdates
    /\ pc = "returned"

\* the element read last cannot be decoded: malformed XML, an issued date that
\* is not a decimal integer, or a reference whose href does not parse
Malformed ==
    \/ cur.kind = "badtoken"
    \/ /\ cur.kind = "update"
       /\ \/ ~cur.raw.wellformed
          \/ /\ cur.raw.issued.present
             /\ \A n \in (0 - MaxTs - 1)..(MaxTs + 1) : cur.raw.issued.value # FormatInt(n)
          \/ \E i \in 1..Len(cur.raw.hrefs) : cur.raw.hrefs[i][1] = ":"

\* C9: when an element fails to decode Parse returns a non-nil error, the
\* handler is invoked neither for that element nor for a later one, and what
\* the earlier invocations wrote stays written
C9_DecodeErrorStops ==
    Malformed =>
        /\ parseRet \notin {"nil", "running"}
        /\ pc # "Parse"
        /\ ~curHandled
        /\ \A k \in 1..Len(handled) : handled[k] < pos
        /\ handlerErr = "nil"
        /\ ~out.jsonOut =>
              \A k \in 1..Len(handled) :
                  \E i \in 1..Len(sink) : sink[i] = Section("body", <<handled[k]>>)
        /\ out.jsonOut => updates = handled

\* a malformed issued date was met after an update had been handled
C9_Witness ==
    /\ Malformed
    /\ cur.decodeErr = "strconv.ParseInt"
    /\ Len(handled) = 1
    /\ pos = 2
    /\ pc = "returned"

\* C10: the close callback of WithOutputFile is invoked exactly once on every
\* exit path of a run started with ParseFileToOutput or ParseToOutput
C10_ClosedOnce ==
    (pc = "returned" /\ RunStarted /\ out.hasClose) => closeCount = 1

\* a run started with ParseFileToOutput returned to its caller
FileRunReturned == pc = "returned" /\ RunStarted /\ entry \in {"cli", "file"}

\* the run met a fatal failure: the input file was not opened, Parse returned
\* an error, or the header, footer, serialization or sink write failed
FatalFailure == inFile = "none" \/ parseRet # "nil" \/ renderErr # "nil"

\* C11: every fatal failure of a ParseFileToOutput run reaches the caller as
\* a non-nil error; nil is returned only when the whole run succeeded
C11_FatalErrorsSurface ==
    (FileRunReturned /\ FatalFailure) => retErr # "nil"

\* ParseToOutput, called with a close callback, returned: retErr holds its
\* result until the deferred function of ParseFileToOutput runs
ParseToOutputReturned ==
    /\ out.hasClose
    /\ closeCount = 1
    /\ \/ pc = "deferInputClose"
       \/ pc = "returned" /\ entry = "reader"

\* C12: with a close callback ParseToOutput returns the render error whenever
\* the render failed, the close error when the render succeeded and close
\* failed, and nil only when both succeeded
C12_CloseErrorNeverMasks ==
    ParseToOutputReturned =>
        /\ renderErr # "nil" => retErr = renderErr
        /\ (renderErr = "nil" /\ closeErr # "nil") => retErr = closeErr
        /\ retErr = "nil" <=> (renderErr = "nil" /\ closeErr = "nil")

\* the render failed and so did close
C12_Witness ==
    /\ ParseToOutputReturned
    /\ renderErr # "nil"
    /\ closeErr # "nil"

\* the errors an option of NewFilterConfig or NewOutputConfig returns
ConfigErrors ==
    {"failed parsing date", "failed opening file", "os.Create", "template.ParseFiles"}

\* C13: when an option of NewFilterConfig or NewOutputConfig fails the caller
\* gets the error and no config, the input is never read, and the output
\* destination is neither created or truncated, nor written, nor left open
C13_NoPartialWork ==
    (pc = "returned" /\ retErr \in ConfigErrors) =>
        /\ out = NilOut
        /\ inFile = "none"
        /\ pos = 0
        /\ sink = <<>>
        /\ outFile = "none"

\* JSON output was requested from NewOutputConfig
JsonRequested == \E i \in 1..Len(oopts) : oopts[i].opt = "WithJsonOutput"

\* the custom templates handed to NewOutputConfig
TemplatesRequested ==
    {oopts[i].name : i \in {j \in 1..Len(oopts) : oopts[j].opt = "WithTemplateFile"}}

\* C14: NewOutputConfig selects one render strategy.  JSON when requested,
\* also beside a custom template, which is then ignored with a warning on the
\* error stream and no error; the custom template when only that is supplied;
\* the built-in template otherwise.  The template strategy always has a
\* compiled template, and the run writes with the selected strategy only
C14_OneStrategy ==
    RunStarted =>
        /\ JsonRequested =>
              /\ out.jsonOut
              /\ \A i \in 1..Len(sink) : sink[i].sec = "json"
              /\ TemplatesRequested # {} <=> stderr # <<>>
        /\ ~JsonRequested =>
              /\ ~out.jsonOut
              /\ stderr = <<>>
              /\ \A i \in 1..Len(sink) : sink[i].sec # "json"
              /\ TemplatesRequested # {} => out.template \in TemplatesRequested
              /\ TemplatesRequested = {} => out.template = "default"
        /\ ~out.jsonOut => TemplateSections(out.template) # {}

\* JSON and a custom template were both requested and the run wrote its JSON
C14_Witness ==
    /\ RunStarted
    /\ JsonRequested
    /\ TemplatesRequested # {}
    /\ pc = "returned"
    /\ retErr = "nil"
    /\ Len(sink) = 1
    /\ Len(handled) = 2

\* the packages files handed to NewFilterConfig
PackagesFilesRequested ==
    {fopts[i].name : i \in {j \in 1..Len(fopts) : fopts[j].opt = "WithPackagesFile"}}

NonBlank(line) == \E i \in 1..Len(line) : line[i] \notin {" ", "\t"}

\* the first pipe-delimited field of a non-blank line, the line being trimmed first
FirstField(line) ==
    LET ink  == {i \in 1..Len(line) : line[i] \notin {" ", "\t"}}
        lo   == CHOOSE i \in ink : \A j \in ink : i <= j
        hi   == CHOOSE i \in ink : \A j \in ink : j <= i
        bars == {i \in lo..hi : line[i] = "|"}
    IN  IF bars = {} THEN SubSeq(line, lo, hi)
        ELSE SubSeq(line, lo, (CHOOSE i \in bars : \A j \in bars : i <= j) - 1)

\* one entry per non-blank line, in file order
EntriesOf(lines) ==
    LET kept == SelectSeq(lines, NonBlank)
    IN  [k \in 1..Len(kept) |-> FirstField(kept[k])]

\* C15: for a readable packages file the allow-list holds exactly one entry
\* per non-empty line, the line's first pipe-delimited field after trimming,
\* in file order; blank and whitespace-only lines contribute no entry
C15_PackagesLoader ==
    RunStarted =>
        \A f \in PackagesFilesRequested :
            filter.pkgWhiteList = EntriesOf(PackagesFileLines(f))

\* C15 on the files without a blank line
C15_NoBlankLines ==
    RunStarted =>
        \A f \in PackagesFilesRequested :
            (\A i \in 1..Len(PackagesFileLines(f)) : NonBlank(PackagesFileLines(f)[i]))
                => filter.pkgWhiteList = EntriesOf(PackagesFileLines(f))

C16_ErrorWitness ==
    /\ RunStarted
    /\ out.jsonOut
    /\ pc = "returned"
    /\ parseRet \notin {"nil", "running"}
    /\ Len(handled) = 1

====
